---- MODULE Spec2Model ----
\* Model of vulkan-tinker: the single-owner handle wrappers of raii.hpp
\* (UniqueHandle / ParentedUniqueHandle and the earlier Holder) and the
\* per-frame render/present loop of main.cpp with its GPU-side completion,
\* and the construction of vulkan.hpp's Instance, Device and Swapchain.
EXTENDS Integers, Sequences, FiniteSets, TLC

\* ---------------------------------------------------------------- bounds
NumHandles == 2
NumValues == 2
NumParents == 2
\* largest number of images a swapchain of the modelled surface may have
MaxImages == 3
\* number of frames of the undisturbed run that is followed frame by frame
ScenarioFrames == 5
\* physical devices enumerated, queue families per device
MaxDevices == 2
MaxFamilies == 2
\* longest list of surface formats, largest width or height a surface reports
MaxFormats == 3
MaxExtent == 2

Handles == 1..NumHandles
\* kNil = T{} : the "no resource owned" value (src/src/raii.hpp:11)
kNil == 0
Values == 1..NumValues
\* a Holder has no parent: its destroy calls carry the null handle
NoParent == kNil
Parents == 1..NumParents
\* AllocationCallbacks is std::nullptr_t in every instantiation of the
\* repository (the template default), a type whose only value is nullptr
Callbacks == {"nullptr"}

VARIABLES
  life,        \* handle object: "unborn" (not yet constructed), "live", "dead"
  cls,         \* its class: "ParentedUniqueHandle" or "Holder" ("none" while unborn)
  t_,          \* UniqueHandle::t_ / Holder::t_
  parent_,     \* ParentedUniqueHandle::parent_
  callbacks_,  \* ParentedUniqueHandle::callbacks_
  wrapped,     \* value -> the arguments its constructor got (or NotWrapped)
  destroyLog,  \* the calls made to the bound destroy operation, in order
  lastOp       \* the handle operation executed last

handleVars == <<life, cls, t_, parent_, callbacks_, wrapped, destroyLog, lastOp>>

VARIABLES
  pc,              \* position of main()
  shouldClose,     \* glfwWindowShouldClose(window)
  imageViews,      \* renderInfo->imageViews.size(); 0 when renderInfo holds no bundle
  perFrame,        \* perFrame.size(): the number of frame slots allocated at startup
  frameIdx,        \* FrameIndex frameIdx
  imgIdx,          \* image index returned by this iteration's acquire (-1: none)
  acquireResult,   \* API result of this iteration's vkAcquireNextImageKHR ("none" before it)
  cmdBufferReady,  \* slot -> the fence is signaled
  imageAvailable,  \* slot -> the semaphore carries a signal nothing has waited on yet
  renderFinished,  \* slot -> the semaphore carries a signal nothing has waited on yet
  recordedFb,      \* slot -> framebuffer index its command buffer was last recorded on (-1: none)
  gpuQueue,        \* submissions the GPU has not completed, oldest first (slot numbers)
  everSubmitted,   \* slots whose command buffer has been submitted at least once
  presentOutOfDate,\* a present on the current bundle returned VK_ERROR_OUT_OF_DATE_KHR
  iterOps          \* the API operations of the current loop iteration, in order

loopVars == <<pc, shouldClose, imageViews, perFrame, frameIdx, imgIdx, acquireResult, cmdBufferReady,
              imageAvailable, renderFinished, recordedFb, gpuQueue, everSubmitted,
              presentOutOfDate, iterOps>>

VARIABLES
  scope,          \* the automatic objects of main() that are alive, in construction order
  bundle,         \* the components the RenderInfo held by renderInfo owns, in construction order
  lastBuild,      \* the RenderInfo construction attempted last: what it created, destroyed, kept
  presentResult,  \* result of the vkQueuePresentKHR call just made ("none" otherwise)
  run             \* counts over the frames rendered since startup while nothing disturbed them

mainVars == <<scope, bundle, lastBuild, presentResult, run>>

VARIABLES
  sel,            \* Device::Device's physical-device selection: its progress and result
  inst,           \* Instance::Instance: the layers asked for and found, the API calls made
  swp             \* Swapchain::Swapchain: what the surface reported, the create-info fields

bootVars == <<sel, inst, swp>>

vars == <<handleVars, loopVars, mainVars, bootVars>>

NotWrapped == [cls |-> "none", parent |-> NoParent, callbacks |-> "none"]
NoOp == [op |-> "none", dst |-> 0, src |-> 0]
Op(o, d, s) == [op |-> o, dst |-> d, src |-> s]

DestroyCall(p, v, ac) == [value |-> v, parent |-> p, callbacks |-> ac]

\* ------------------------------------------------- raii.hpp (src/src)
\* ParentedUniqueHandle::destroy : Dtor(parent_, t, callbacks_)
destroy(h, v, log) == Append(log, DestroyCall(parent_[h], v, callbacks_[h]))

\* UniqueHandle::maybeDestroy : if (t_) destroy(t_)
maybeDestroy_NoNilCheck(h, log) == destroy(h, t_[h], log)
maybeDestroy(h, log) == IF t_[h] # kNil THEN destroy(h, t_[h], log) ELSE log

\* Holder::~Holder body : if (t_ != T{}) Dtor(t_)        (src/raii.hpp)
HolderDtor(h, log) ==
  IF t_[h] # kNil THEN Append(log, DestroyCall(NoParent, t_[h], "none")) ELSE log

\* ParentedUniqueHandle(Parent p, T t, AllocationCallbacks ac)
Construct(h, p, v, ac) ==
  /\ life[h] = "unborn"
  /\ v # kNil => wrapped[v] = NotWrapped
  /\ life' = [life EXCEPT ![h] = "live"]
  /\ cls' = [cls EXCEPT ![h] = "ParentedUniqueHandle"]
  /\ t_' = [t_ EXCEPT ![h] = v]
  /\ parent_' = [parent_ EXCEPT ![h] = p]
  /\ callbacks_' = [callbacks_ EXCEPT ![h] = ac]
  /\ wrapped' = IF v # kNil
                THEN [wrapped EXCEPT ![v] = [cls |-> "ParentedUniqueHandle", parent |-> p, callbacks |-> ac]]
                ELSE wrapped
  /\ lastOp' = Op("Construct", h, h)
  /\ UNCHANGED destroyLog

\* Holder(Args&&...) : t_{Ctor(args...)}
HolderConstruct(h, v) ==
  /\ life[h] = "unborn"
  /\ v # kNil => wrapped[v] = NotWrapped
  /\ life' = [life EXCEPT ![h] = "live"]
  /\ cls' = [cls EXCEPT ![h] = "Holder"]
  /\ t_' = [t_ EXCEPT ![h] = v]
  /\ wrapped' = IF v # kNil
                THEN [wrapped EXCEPT ![v] = [cls |-> "Holder", parent |-> NoParent, callbacks |-> "none"]]
                ELSE wrapped
  /\ lastOp' = Op("Construct", h, h)
  /\ UNCHANGED <<parent_, callbacks_, destroyLog>>

\* UniqueHandle(UniqueHandle&& other) : t_{std::exchange(other.t_, kNil)},
\* then the implicit ParentedUniqueHandle move constructor copies parent_
\* and callbacks_ from other.
MoveConstruct_NoExchange(b, a) ==
  /\ life[b] = "unborn" /\ life[a] = "live" /\ cls[a] = "ParentedUniqueHandle"
  /\ life' = [life EXCEPT ![b] = "live"]
  /\ cls' = [cls EXCEPT ![b] = cls[a]]
  /\ t_' = [t_ EXCEPT ![b] = t_[a]]
  /\ parent_' = [parent_ EXCEPT ![b] = parent_[a]]
  /\ callbacks_' = [callbacks_ EXCEPT ![b] = callbacks_[a]]
  /\ lastOp' = Op("MoveConstruct", b, a)
  /\ UNCHANGED <<wrapped, destroyLog>>
MoveConstruct(b, a) ==
  /\ life[b] = "unborn" /\ life[a] = "live" /\ cls[a] = "ParentedUniqueHandle"
  /\ life' = [life EXCEPT ![b] = "live"]
  /\ cls' = [cls EXCEPT ![b] = cls[a]]
  /\ t_' = [t_ EXCEPT ![b] = t_[a], ![a] = kNil]
  /\ parent_' = [parent_ EXCEPT ![b] = parent_[a]]
  /\ callbacks_' = [callbacks_ EXCEPT ![b] = callbacks_[a]]
  /\ lastOp' = Op("MoveConstruct", b, a)
  /\ UNCHANGED <<wrapped, destroyLog>>

\* Holder(Holder&& other) : t_{std::exchange(other.t_, 0)}
HolderMoveConstruct(b, a) ==
  /\ life[b] = "unborn" /\ life[a] = "live" /\ cls[a] = "Holder"
  /\ life' = [life EXCEPT ![b] = "live"]
  /\ cls' = [cls EXCEPT ![b] = cls[a]]
  /\ t_' = [t_ EXCEPT ![b] = t_[a], ![a] = 0]
  /\ lastOp' = Op("MoveConstruct", b, a)
  /\ UNCHANGED <<parent_, callbacks_, wrapped, destroyLog>>

\* UniqueHandle::operator=(UniqueHandle&& other):
\*   if (this != &other) { maybeDestroy(); t_ = std::exchange(other.t_, kNil); }
\* run as the base part of the implicit ParentedUniqueHandle move assignment,
\* which afterwards assigns parent_ and callbacks_ from other.
MoveAssign_NoSelfCheck(d, s) ==
  /\ life[d] = "live" /\ life[s] = "live"
  /\ cls[d] = "ParentedUniqueHandle" /\ cls[s] = "ParentedUniqueHandle"
  /\ destroyLog' = maybeDestroy(d, destroyLog)
  /\ t_' = [[t_ EXCEPT ![s] = kNil] EXCEPT ![d] = IF d = s THEN kNil ELSE t_[s]]
  /\ parent_' = [parent_ EXCEPT ![d] = parent_[s]]
  /\ callbacks_' = [callbacks_ EXCEPT ![d] = callbacks_[s]]
  /\ lastOp' = Op("MoveAssign", d, s)
  /\ UNCHANGED <<life, cls, wrapped>>
MoveAssign_NoDestroy(d, s) ==
  /\ life[d] = "live" /\ life[s] = "live"
  /\ cls[d] = "ParentedUniqueHandle" /\ cls[s] = "ParentedUniqueHandle"
  /\ IF d # s
     THEN /\ t_' = [t_ EXCEPT ![d] = t_[s], ![s] = kNil]
     ELSE /\ UNCHANGED t_
  /\ UNCHANGED destroyLog
  /\ parent_' = [parent_ EXCEPT ![d] = parent_[s]]
  /\ callbacks_' = [callbacks_ EXCEPT ![d] = callbacks_[s]]
  /\ lastOp' = Op("MoveAssign", d, s)
  /\ UNCHANGED <<life, cls, wrapped>>
MoveAssign_ParentFirst(d, s) ==
  /\ life[d] = "live" /\ life[s] = "live"
  /\ cls[d] = "ParentedUniqueHandle" /\ cls[s] = "ParentedUniqueHandle"
  /\ IF d # s
     THEN /\ destroyLog' = IF t_[d] # kNil
                           THEN Append(destroyLog, DestroyCall(parent_[s], t_[d], callbacks_[s]))
                           ELSE destroyLog
          /\ t_' = [t_ EXCEPT ![d] = t_[s], ![s] = kNil]
     ELSE /\ UNCHANGED <<destroyLog, t_>>
  /\ parent_' = [parent_ EXCEPT ![d] = parent_[s]]
  /\ callbacks_' = [callbacks_ EXCEPT ![d] = callbacks_[s]]
  /\ lastOp' = Op("MoveAssign", d, s)
  /\ UNCHANGED <<life, cls, wrapped>>
MoveAssign(d, s) ==
  /\ life[d] = "live" /\ life[s] = "live"
  /\ cls[d] = "ParentedUniqueHandle" /\ cls[s] = "ParentedUniqueHandle"
  /\ IF d # s
     THEN /\ destroyLog' = maybeDestroy(d, destroyLog)
          /\ t_' = [t_ EXCEPT ![d] = t_[s], ![s] = kNil]
     ELSE /\ UNCHANGED <<destroyLog, t_>>
  /\ parent_' = [parent_ EXCEPT ![d] = parent_[s]]
  /\ callbacks_' = [callbacks_ EXCEPT ![d] = callbacks_[s]]
  /\ lastOp' = Op("MoveAssign", d, s)
  /\ UNCHANGED <<life, cls, wrapped>>

\* Holder::operator=(Holder&& other):
\*   if (this != &other) { std::destroy_at(this); std::construct_at(this, std::move(other)); }
HolderMoveAssign(d, s) ==
  /\ life[d] = "live" /\ life[s] = "live"
  /\ cls[d] = "Holder" /\ cls[s] = "Holder"
  /\ IF d # s
     THEN /\ destroyLog' = HolderDtor(d, destroyLog)
          /\ t_' = [t_ EXCEPT ![d] = t_[s], ![s] = 0]
     ELSE /\ UNCHANGED <<destroyLog, t_>>
  /\ lastOp' = Op("MoveAssign", d, s)
  /\ UNCHANGED <<life, cls, parent_, callbacks_, wrapped>>

\* UniqueHandle::reset : maybeDestroy(); t_ = kNil;
reset(h) ==
  /\ life[h] = "live" /\ cls[h] = "ParentedUniqueHandle"
  /\ destroyLog' = maybeDestroy(h, destroyLog)
  /\ t_' = [t_ EXCEPT ![h] = kNil]
  /\ lastOp' = Op("Reset", h, h)
  /\ UNCHANGED <<life, cls, parent_, callbacks_, wrapped>>

\* UniqueHandle::~UniqueHandle : maybeDestroy();  the object then no longer exists
Destruct(h) ==
  /\ life[h] = "live" /\ cls[h] = "ParentedUniqueHandle"
  /\ destroyLog' = maybeDestroy(h, destroyLog)
  /\ life' = [life EXCEPT ![h] = "dead"]
  /\ t_' = [t_ EXCEPT ![h] = kNil]
  /\ parent_' = [parent_ EXCEPT ![h] = NoParent]
  /\ callbacks_' = [callbacks_ EXCEPT ![h] = "none"]
  /\ lastOp' = Op("Destruct", h, h)
  /\ UNCHANGED <<cls, wrapped>>

\* Holder::~Holder
HolderDestruct(h) ==
  /\ life[h] = "live" /\ cls[h] = "Holder"
  /\ destroyLog' = HolderDtor(h, destroyLog)
  /\ life' = [life EXCEPT ![h] = "dead"]
  /\ t_' = [t_ EXCEPT ![h] = kNil]
  /\ lastOp' = Op("Destruct", h, h)
  /\ UNCHANGED <<cls, parent_, callbacks_, wrapped>>


\* ------------------------------------------------ main.cpp / vulkan.hpp
Slots == 0..(MaxImages - 1)
ImageCounts == 1..MaxImages

\* results of vkAcquireNextImageKHR / vkQueuePresentKHR
AcquireResults == {"VK_SUCCESS", "VK_SUBOPTIMAL_KHR", "VK_ERROR_OUT_OF_DATE_KHR", "VK_ERROR_DEVICE_LOST"}
PresentResults == {"VK_SUCCESS", "VK_SUBOPTIMAL_KHR", "VK_ERROR_OUT_OF_DATE_KHR", "VK_ERROR_DEVICE_LOST"}

\* acquireNextImageKHR<ErrorOnSuboptimal = true>: main uses the default
ErrorOnSuboptimal == TRUE

\* the sync objects and command buffer of frame slot i
ImageAvailable(i) == <<"imageAvailable", i>>
RenderFinished(i) == <<"renderFinished", i>>
CmdBufferReady(i) == <<"cmdBufferReady", i>>
CmdBuffer(i) == <<"commandBuffer", i>>
None == <<>>

\* one API operation of an iteration, with the objects it was given
Ev(o, cmd, w, sg, f, img) ==
  [op |-> o, cmd |-> cmd, wait |-> w, signal |-> sg, fence |-> f, image |-> img]

\* vk::acquireNextImageKHR: classification of the API result
acquireNextImageKHR_OutOfDateIsSuccess(res, strict) ==
  IF res \in {"VK_SUCCESS", "VK_ERROR_OUT_OF_DATE_KHR"} \/ (res = "VK_SUBOPTIMAL_KHR" /\ ~strict)
  THEN "index"
  ELSE IF res = "VK_SUBOPTIMAL_KHR" /\ strict THEN "OutOfDateError" ELSE "runtime_error"
acquireNextImageKHR_SuboptimalIsSuccess(res, strict) ==
  IF res \in {"VK_SUCCESS", "VK_SUBOPTIMAL_KHR"}
  THEN "index"
  ELSE IF res = "VK_ERROR_OUT_OF_DATE_KHR" THEN "OutOfDateError" ELSE "runtime_error"
acquireNextImageKHR(res, strict) ==
  IF res = "VK_SUCCESS" \/ (res = "VK_SUBOPTIMAL_KHR" /\ ~strict)
  THEN "index"
  ELSE IF res = "VK_ERROR_OUT_OF_DATE_KHR" \/ (res = "VK_SUBOPTIMAL_KHR" /\ strict)
       THEN "OutOfDateError"
       ELSE "runtime_error"

\* vk::queueSubmit: one VkSubmitInfo with pWaitSemaphores = &imageAvailable,
\* pCommandBuffers = &cmdBuffer, pSignalSemaphores = &renderFinished, and the
\* fence cmdBufferReady
queueSubmit_SwappedSemaphores(cmdBuffer, imgAvail, rndrFinished, fence) ==
  Ev("submit", cmdBuffer, rndrFinished, imgAvail, fence, -1)
queueSubmit(cmdBuffer, imgAvail, rndrFinished, fence) ==
  Ev("submit", cmdBuffer, imgAvail, rndrFinished, fence, -1)

\* vk::presentQueue: pWaitSemaphores = &renderFinished, pImageIndices = &imgIdx
presentQueue(rndrFinished, img) == Ev("present", None, rndrFinished, None, None, img)

\* render(): .framebuffer = renderInfo.framebuffers[idx]
renderFramebuffer(idx) == idx

\* an object or resource of main(): its name and, for the members of a
\* vector, its position
Obj(name) == <<name, 0>>

\* main, lines 108-124: the automatic objects in declaration order
MainDecls_WindowBeforeGlfw ==
  << Obj("window"), Obj("glfwState"), Obj("instance"), Obj("surface"), Obj("device"),
     Obj("shaderLayout"), Obj("vertexShader"), Obj("fragmentShader"), Obj("commandPool"),
     Obj("renderInfo"), Obj("perFrame") >>
MainDecls ==
  << Obj("glfwState"), Obj("window"), Obj("instance"), Obj("surface"), Obj("device"),
     Obj("shaderLayout"), Obj("vertexShader"), Obj("fragmentShader"), Obj("commandPool"),
     Obj("renderInfo"), Obj("perFrame") >>

\* GlobalState() ignores the result of glfwInit and Window wraps whatever
\* glfwCreateWindow returns; every other constructor throws when its create
\* call fails
CanThrow(obj) == obj \notin {Obj("glfwState"), Obj("window")}

Reverse(s) == [i \in 1..Len(s) |-> s[Len(s) + 1 - i]]

\* RenderInfo's members in declaration order for a swapchain of n images:
\* swapchain, imageViews[0..n-1], renderPass, pipeline, framebuffers[0..n-1]
Components(n) ==
  <<Obj("swapchain")>> \o [k \in 1..n |-> <<"imageView", k - 1>>]
    \o <<Obj("renderPass"), Obj("pipeline")>> \o [k \in 1..n |-> <<"framebuffer", k - 1>>]

\* RenderInfo::RenderInfo for a swapchain of n images whose failAt-th create
\* call fails (0: none does).  A constructor that throws destroys the members
\* and vector elements already constructed, last first, and no object results.
RenderInfoCtor_KeepsPartial(n, failAt) ==
  LET cs == Components(n)
      made == SubSeq(cs, 1, failAt - 1)
  IN IF failAt = 0
     THEN [ok |-> TRUE, created |-> cs, destroyed |-> <<>>, held |-> cs]
     ELSE [ok |-> FALSE, created |-> made, destroyed |-> <<>>, held |-> made]
RenderInfoCtor(n, failAt) ==
  LET cs == Components(n)
      made == SubSeq(cs, 1, failAt - 1)
  IN IF failAt = 0
     THEN [ok |-> TRUE, created |-> cs, destroyed |-> <<>>, held |-> cs]
     ELSE [ok |-> FALSE, created |-> made, destroyed |-> Reverse(made), held |-> <<>>]

NoBuild == [ok |-> TRUE, created |-> <<>>, destroyed |-> <<>>, held |-> <<>>]

\* main, lines 108-125: glfwState, window, instance, surface, device, the
\* pipeline layout, the shader modules, the command pool, the first RenderInfo,
\* the frame slots (one per image view, fences created signaled), frameIdx = 0.
\* A constructor that throws leaves the objects declared before it alive and
\* the exception in flight.
Startup ==
  /\ pc = "startup"
  /\ \/ \E n \in ImageCounts :
          LET res == RenderInfoCtor(n, 0)
          IN /\ scope' = MainDecls
             /\ bundle' = res.held
             /\ lastBuild' = res
             /\ imageViews' = n
             /\ perFrame' = n
             /\ pc' = "loop_top"
     \/ \E k \in 1..Len(MainDecls) :
          /\ CanThrow(MainDecls[k])
          /\ scope' = SubSeq(MainDecls, 1, k - 1)
          /\ pc' = "fatal"
          /\ perFrame' = 0
          /\ CASE MainDecls[k] = Obj("renderInfo") ->
                    \E n \in ImageCounts, failAt \in 1..(2 * MaxImages + 3) :
                      /\ failAt <= Len(Components(n))
                      /\ lastBuild' = RenderInfoCtor(n, failAt)
                      /\ bundle' = lastBuild'.held
                      /\ imageViews' = 0
               [] MainDecls[k] = Obj("perFrame") ->
                    \E n \in ImageCounts :
                      /\ lastBuild' = RenderInfoCtor(n, 0)
                      /\ bundle' = lastBuild'.held
                      /\ imageViews' = n
               [] OTHER ->
                    /\ lastBuild' = NoBuild
                    /\ bundle' = <<>>
                    /\ imageViews' = 0
  /\ UNCHANGED <<shouldClose, frameIdx, imgIdx, acquireResult, cmdBufferReady, imageAvailable,
                 renderFinished, recordedFb, gpuQueue, everSubmitted,
                 presentOutOfDate, iterOps, presentResult, run>>

\* while (!glfwWindowShouldClose(window))
LoopTop_IgnoresClose ==
  /\ pc = "loop_top"
  /\ pc' = "poll"
  /\ UNCHANGED <<shouldClose, imageViews, perFrame, frameIdx, imgIdx, acquireResult, cmdBufferReady,
                 imageAvailable, renderFinished, recordedFb, gpuQueue, everSubmitted,
                 presentOutOfDate, iterOps>>
LoopTop ==
  /\ pc = "loop_top"
  /\ pc' = IF shouldClose THEN "exit_idle" ELSE "poll"
  /\ UNCHANGED <<shouldClose, imageViews, perFrame, frameIdx, imgIdx, acquireResult, cmdBufferReady,
                 imageAvailable, renderFinished, recordedFb, gpuQueue, everSubmitted,
                 presentOutOfDate, iterOps>>

\* glfwPollEvents(): a close request may arrive
PollEvents ==
  /\ pc = "poll"
  /\ \E close \in BOOLEAN : shouldClose' = (shouldClose \/ close)
  /\ iterOps' = <<>>
  /\ imgIdx' = -1
  /\ acquireResult' = "none"
  /\ pc' = "select"
  /\ UNCHANGED <<imageViews, perFrame, frameIdx, cmdBufferReady, imageAvailable,
                 renderFinished, recordedFb, gpuQueue, everSubmitted, presentOutOfDate>>

\* auto& [...] = perFrame[frameIdx];  an index past the end of the vector is
\* undefined: the handles read are garbage, and the process either dies on
\* using them or an API call fails and throws.
SelectSlot ==
  /\ pc = "select"
  /\ IF frameIdx < perFrame
     THEN pc' = "wait"
     ELSE pc' \in {"crashed", "fatal"}
  /\ UNCHANGED <<shouldClose, imageViews, perFrame, frameIdx, imgIdx, acquireResult, cmdBufferReady,
                 imageAvailable, renderFinished, recordedFb, gpuQueue, everSubmitted,
                 presentOutOfDate, iterOps>>

\* cmdBufferReady.wait(): vkWaitForFences with no timeout returns once the
\* fence is signaled
FenceWait_NoBlock ==
  /\ pc = "wait"
  /\ iterOps' = Append(iterOps, Ev("wait", None, None, None, CmdBufferReady(frameIdx), -1))
  /\ pc' = "acquire"
  /\ UNCHANGED <<shouldClose, imageViews, perFrame, frameIdx, imgIdx, acquireResult, cmdBufferReady,
                 imageAvailable, renderFinished, recordedFb, gpuQueue, everSubmitted,
                 presentOutOfDate>>
FenceWait ==
  /\ pc = "wait"
  /\ cmdBufferReady[frameIdx]
  /\ iterOps' = Append(iterOps, Ev("wait", None, None, None, CmdBufferReady(frameIdx), -1))
  /\ pc' = "acquire"
  /\ UNCHANGED <<shouldClose, imageViews, perFrame, frameIdx, imgIdx, acquireResult, cmdBufferReady,
                 imageAvailable, renderFinished, recordedFb, gpuQueue, everSubmitted,
                 presentOutOfDate>>

\* the pending-signal state of a family of semaphores after a queue operation
\* that waits on semaphore w and signals semaphore sg
SemAfter(sem, name, w, sg) ==
  [i \in Slots |-> IF w = <<name, i>> THEN FALSE
                   ELSE IF sg = <<name, i>> THEN TRUE
                   ELSE sem[i]]

\* auto imgIdx = vk::acquireNextImageKHR(device, renderInfo->swapchain, imageAvailable);
\* VK_SUCCESS and VK_SUBOPTIMAL_KHR acquire an image and signal the semaphore.
Acquire ==
  /\ pc = "acquire"
  /\ \E res \in AcquireResults, index \in 0..(imageViews - 1) :
       LET outcome == acquireNextImageKHR(res, ErrorOnSuboptimal)
           got == res \in {"VK_SUCCESS", "VK_SUBOPTIMAL_KHR"}
       IN /\ got \/ index = 0
          /\ acquireResult' = res
          /\ imgIdx' = IF outcome = "index" THEN index ELSE -1
          /\ imageAvailable' = IF got
                               THEN SemAfter(imageAvailable, "imageAvailable", None,
                                             ImageAvailable(frameIdx))
                               ELSE imageAvailable
          /\ iterOps' = Append(iterOps, Ev("acquire", None, None, ImageAvailable(frameIdx),
                                           None, -1))
          /\ pc' = CASE outcome = "index" -> "fence_reset"
                     [] outcome = "OutOfDateError" -> "catch_idle"
                     [] OTHER -> "fatal"
  /\ UNCHANGED <<shouldClose, imageViews, perFrame, frameIdx, cmdBufferReady,
                 renderFinished, recordedFb, gpuQueue, everSubmitted, presentOutOfDate>>

\* cmdBufferReady.reset(): vkResetFences
FenceReset ==
  /\ pc = "fence_reset"
  /\ cmdBufferReady' = [cmdBufferReady EXCEPT ![frameIdx] = FALSE]
  /\ iterOps' = Append(iterOps, Ev("reset", None, None, None, CmdBufferReady(frameIdx), -1))
  /\ pc' = "record"
  /\ UNCHANGED <<shouldClose, imageViews, perFrame, frameIdx, imgIdx, acquireResult,
                 imageAvailable, renderFinished, recordedFb, gpuQueue, everSubmitted,
                 presentOutOfDate>>

\* render(cmdBuffer, *renderInfo, frameIdx): vkResetCommandBuffer, begin, the
\* render pass on framebuffers[idx], draw, end; a failed begin or end throws
Record ==
  /\ pc = "record"
  /\ iterOps' = Append(iterOps, Ev("record", CmdBuffer(frameIdx), None, None, None, -1))
  /\ \/ /\ recordedFb' = [recordedFb EXCEPT ![frameIdx] = renderFramebuffer(frameIdx)]
        /\ pc' = "submit"
     \/ /\ recordedFb' = [recordedFb EXCEPT ![frameIdx] = -1]
        /\ pc' = "fatal"
  /\ UNCHANGED <<shouldClose, imageViews, perFrame, frameIdx, imgIdx, acquireResult,
                 cmdBufferReady, imageAvailable, renderFinished, gpuQueue, everSubmitted,
                 presentOutOfDate>>

\* vk::queueSubmit(device, cmdBuffer, imageAvailable, renderFinished, cmdBufferReady);
\* a result other than VK_SUCCESS throws
Submit ==
  /\ pc = "submit"
  /\ \/ LET ev == queueSubmit(CmdBuffer(frameIdx), ImageAvailable(frameIdx),
                              RenderFinished(frameIdx), CmdBufferReady(frameIdx))
        IN /\ iterOps' = Append(iterOps, ev)
           /\ gpuQueue' = Append(gpuQueue, frameIdx)
           /\ everSubmitted' = everSubmitted \cup {frameIdx}
           /\ imageAvailable' = SemAfter(imageAvailable, "imageAvailable", ev.wait, ev.signal)
           /\ renderFinished' = SemAfter(renderFinished, "renderFinished", ev.wait, ev.signal)
           /\ pc' = "present"
     \/ /\ pc' = "fatal"
        /\ UNCHANGED <<iterOps, gpuQueue, everSubmitted, imageAvailable, renderFinished>>
  /\ UNCHANGED <<shouldClose, imageViews, perFrame, frameIdx, imgIdx, acquireResult,
                 cmdBufferReady, recordedFb, presentOutOfDate>>

\* vk::presentQueue(device, renderInfo->swapchain, renderFinished, imgIdx):
\* the result of vkQueuePresentKHR is discarded
Present ==
  /\ pc = "present"
  /\ \E res \in PresentResults :
       LET ev == presentQueue(RenderFinished(frameIdx), imgIdx)
       IN /\ iterOps' = Append(iterOps, ev)
          /\ renderFinished' = SemAfter(renderFinished, "renderFinished", ev.wait, ev.signal)
          /\ presentOutOfDate' = (presentOutOfDate \/ res = "VK_ERROR_OUT_OF_DATE_KHR")
          /\ presentResult' = res
  /\ pc' = "advance"
  /\ UNCHANGED <<shouldClose, imageViews, perFrame, frameIdx, imgIdx, acquireResult,
                 cmdBufferReady, imageAvailable, recordedFb, gpuQueue, everSubmitted,
                 scope, bundle, lastBuild>>

\* if (++frameIdx >= renderInfo->imageViews.size()) frameIdx = 0;
Advance_Stuck ==
  /\ pc = "advance"
  /\ frameIdx' = frameIdx
  /\ iterOps' = Append(iterOps, Ev("advance", None, None, None, None, -1))
  /\ presentResult' = "none"
  /\ pc' = "loop_top"
  /\ UNCHANGED <<shouldClose, imageViews, perFrame, imgIdx, acquireResult, cmdBufferReady,
                 imageAvailable, renderFinished, recordedFb, gpuQueue, everSubmitted,
                 presentOutOfDate, scope, bundle, lastBuild>>
Advance ==
  /\ pc = "advance"
  /\ frameIdx' = IF frameIdx + 1 >= imageViews THEN 0 ELSE frameIdx + 1
  /\ iterOps' = Append(iterOps, Ev("advance", None, None, None, None, -1))
  /\ presentResult' = "none"
  /\ pc' = "loop_top"
  /\ UNCHANGED <<shouldClose, imageViews, perFrame, imgIdx, acquireResult, cmdBufferReady,
                 imageAvailable, renderFinished, recordedFb, gpuQueue, everSubmitted,
                 presentOutOfDate, scope, bundle, lastBuild>>

\* catch (vk::OutOfDateError const&): vkDeviceWaitIdle(device) returns once the
\* GPU has completed everything submitted
CatchWaitIdle_NoWait ==
  /\ pc = "catch_idle"
  /\ iterOps' = Append(iterOps, Ev("idle", None, None, None, None, -1))
  /\ pc' = "catch_emplace"
  /\ UNCHANGED <<shouldClose, imageViews, perFrame, frameIdx, imgIdx, acquireResult,
                 cmdBufferReady, imageAvailable, renderFinished, recordedFb, gpuQueue,
                 everSubmitted, presentOutOfDate>>
CatchWaitIdle ==
  /\ pc = "catch_idle"
  /\ gpuQueue = <<>>
  /\ iterOps' = Append(iterOps, Ev("idle", None, None, None, None, -1))
  /\ pc' = "catch_emplace"
  /\ UNCHANGED <<shouldClose, imageViews, perFrame, frameIdx, imgIdx, acquireResult,
                 cmdBufferReady, imageAvailable, renderFinished, recordedFb, gpuQueue,
                 everSubmitted, presentOutOfDate>>

\* renderInfo.emplace(...): destroys the held RenderInfo, then constructs the new
\* one in place; if the constructor throws the optional is left empty and the
\* exception leaves the handler
CatchEmplace ==
  /\ pc = "catch_emplace"
  /\ \E n \in ImageCounts, failAt \in 0..(2 * MaxImages + 3) :
       LET res == RenderInfoCtor(n, failAt)
       IN /\ failAt <= Len(Components(n))
          /\ lastBuild' = res
          /\ bundle' = res.held
          /\ imageViews' = IF res.ok THEN n ELSE 0
          /\ iterOps' = IF res.ok
                        THEN iterOps \o <<Ev("destroy_bundle", None, None, None, None, -1),
                                          Ev("build_bundle", None, None, None, None, -1)>>
                        ELSE Append(iterOps, Ev("destroy_bundle", None, None, None, None, -1))
          /\ pc' = IF res.ok THEN "catch_reset" ELSE "fatal"
  /\ presentOutOfDate' = FALSE
  /\ UNCHANGED <<shouldClose, perFrame, frameIdx, imgIdx, acquireResult, cmdBufferReady,
                 imageAvailable, renderFinished, recordedFb, gpuQueue, everSubmitted,
                 scope, presentResult, run>>

\* frameIdx = 0;
CatchResetIndex ==
  /\ pc = "catch_reset"
  /\ frameIdx' = 0
  /\ iterOps' = Append(iterOps, Ev("reset_idx", None, None, None, None, -1))
  /\ pc' = "loop_top"
  /\ UNCHANGED <<shouldClose, imageViews, perFrame, imgIdx, acquireResult, cmdBufferReady,
                 imageAvailable, renderFinished, recordedFb, gpuQueue, everSubmitted,
                 presentOutOfDate>>

\* after the loop: vkDeviceWaitIdle(device); then the scope ends
ExitWaitIdle_NoWait ==
  /\ pc = "exit_idle"
  /\ pc' = "done"
  /\ UNCHANGED <<shouldClose, imageViews, perFrame, frameIdx, imgIdx, acquireResult,
                 cmdBufferReady, imageAvailable, renderFinished, recordedFb, gpuQueue,
                 everSubmitted, presentOutOfDate, iterOps>>
ExitWaitIdle ==
  /\ pc = "exit_idle"
  /\ gpuQueue = <<>>
  /\ pc' = "done"
  /\ UNCHANGED <<shouldClose, imageViews, perFrame, frameIdx, imgIdx, acquireResult,
                 cmdBufferReady, imageAvailable, renderFinished, recordedFb, gpuQueue,
                 everSubmitted, presentOutOfDate, iterOps>>

\* the GPU completes the oldest submission and signals its fence (signal
\* operations of one queue happen in submission order)
GpuComplete ==
  /\ gpuQueue # <<>>
  /\ cmdBufferReady' = [cmdBufferReady EXCEPT ![Head(gpuQueue)] = TRUE]
  /\ gpuQueue' = Tail(gpuQueue)
  /\ UNCHANGED <<pc, shouldClose, imageViews, perFrame, frameIdx, imgIdx, acquireResult,
                 imageAvailable, renderFinished, recordedFb, everSubmitted,
                 presentOutOfDate, iterOps>>

\* the end of an automatic object's lifetime: the object declared last goes
\* first; ~optional<RenderInfo> destroys the bundle it holds, ~vector the frame
\* slots with their semaphores and fences
PopScope ==
  LET top == scope[Len(scope)]
  IN /\ scope' = SubSeq(scope, 1, Len(scope) - 1)
     /\ bundle' = IF top = Obj("renderInfo") THEN <<>> ELSE bundle
     /\ imageViews' = IF top = Obj("renderInfo") THEN 0 ELSE imageViews
     /\ perFrame' = IF top = Obj("perFrame") THEN 0 ELSE perFrame
     /\ lastBuild' = NoBuild

\* main, lines 156-159: the block ends, then return 0 ends glfwState
ScopeExit ==
  /\ pc \in {"done", "scope_exit"}
  /\ scope # <<>>
  /\ PopScope
  /\ pc' = IF Len(scope) = 1 THEN "returned" ELSE "scope_exit"
  /\ UNCHANGED <<shouldClose, frameIdx, imgIdx, acquireResult, cmdBufferReady, imageAvailable,
                 renderFinished, recordedFb, gpuQueue, everSubmitted, presentOutOfDate,
                 iterOps, presentResult, run>>

\* main has no handler for an exception other than OutOfDateError in the loop:
\* std::terminate is called, and whether the stack is unwound before that is
\* implementation-defined.  pc stays "fatal"; each step here unwinds one object.
Unwind ==
  /\ pc = "fatal"
  /\ scope # <<>>
  /\ PopScope
  /\ UNCHANGED <<pc, shouldClose, frameIdx, imgIdx, acquireResult, cmdBufferReady,
                 imageAvailable, renderFinished, recordedFb, gpuQueue, everSubmitted,
                 presentOutOfDate, iterOps, presentResult, run>>

\* ------------------------------------------- the undisturbed run (history)
NoCount == [i \in Slots |-> 0]
NoRun == [state |-> "void", frames |-> 0, submits |-> 0, presents |-> 0,
          waits |-> NoCount, resets |-> NoCount, idxLog |-> <<>>]
FirstRun == [NoRun EXCEPT !.state = "clean"]

\* the counts are kept while every call has succeeded since startup, for the
\* first ScenarioFrames frames
RunStep(r) == IF run.state = "clean" /\ run.frames < ScenarioFrames THEN r ELSE run

RunWait == run' = RunStep([run EXCEPT !.waits[frameIdx] = @ + 1])
RunAcquire == run' = IF acquireResult' = "VK_SUCCESS" THEN run ELSE RunStep(NoRun)
RunReset == run' = RunStep([run EXCEPT !.resets[frameIdx] = @ + 1])
RunRecord == run' = IF pc' = "fatal" THEN RunStep(NoRun) ELSE run
RunSubmit == run' = IF pc' = "fatal" THEN RunStep(NoRun)
                    ELSE RunStep([run EXCEPT !.submits = @ + 1])
RunPresent == run' = IF presentResult' = "VK_SUCCESS"
                     THEN RunStep([run EXCEPT !.presents = @ + 1])
                     ELSE RunStep(NoRun)
RunAdvance == run' = RunStep([run EXCEPT !.frames = @ + 1, !.idxLog = Append(@, frameIdx')])

\* ------------------------------------- vulkan.hpp: Device::Device selection
\* main passes std::array{VK_KHR_SWAPCHAIN_EXTENSION_NAME}
RequiredExtensions == {"VK_KHR_swapchain"}
ExtensionNames == {"VK_KHR_swapchain", "VK_KHR_maintenance1"}

\* VkQueueFamilyProperties with queueFlags & VK_QUEUE_GRAPHICS_BIT, and what
\* vkGetPhysicalDeviceSurfaceSupportKHR reports for the family
QueueFamily == [graphics : BOOLEAN, present : BOOLEAN]
FamilyLists == UNION {[1..n -> QueueFamily] : n \in 0..MaxFamilies}

\* what the queries report about one physical device: its extensions, the
\* number of present modes and surface formats, its queue families
PhysDevices ==
  [exts : SUBSET ExtensionNames, presentModes : 0..1, formats : 0..1, families : FamilyLists]

Min(S) == CHOOSE x \in S : \A y \in S : x <= y

NoTuple == [found |-> FALSE, gfxQueueIdx |-> 0, presentQueueIdx |-> 0]

\* the body of the loop over the physical devices (lines 141-167): continue
\* (no tuple) when an extension is missing, when there is no present mode or
\* no surface format, when find_if finds no graphics family, or when no
\* family index i reports surface support; otherwise the tuple with the
\* position find_if returned and the first such i (indices counted from 0)
TryDevice_LastPresentFamily(d) ==
  LET gfx == {i \in DOMAIN d.families : d.families[i].graphics}
      prs == {i \in DOMAIN d.families : d.families[i].present}
  IN IF ~(RequiredExtensions \subseteq d.exts) THEN NoTuple
     ELSE IF d.presentModes = 0 \/ d.formats = 0 THEN NoTuple
     ELSE IF gfx = {} THEN NoTuple
     ELSE IF prs = {} THEN NoTuple
     ELSE [found |-> TRUE, gfxQueueIdx |-> Min(gfx) - 1,
           presentQueueIdx |-> (CHOOSE x \in prs : \A y \in prs : y <= x) - 1]
TryDevice_NoFormatCheck(d) ==
  LET gfx == {i \in DOMAIN d.families : d.families[i].graphics}
      prs == {i \in DOMAIN d.families : d.families[i].present}
  IN IF ~(RequiredExtensions \subseteq d.exts) THEN NoTuple
     ELSE IF d.presentModes = 0 THEN NoTuple
     ELSE IF gfx = {} THEN NoTuple
     ELSE IF prs = {} THEN NoTuple
     ELSE [found |-> TRUE, gfxQueueIdx |-> Min(gfx) - 1, presentQueueIdx |-> Min(prs) - 1]
TryDevice(d) ==
  LET gfx == {i \in DOMAIN d.families : d.families[i].graphics}
      prs == {i \in DOMAIN d.families : d.families[i].present}
  IN IF ~(RequiredExtensions \subseteq d.exts) THEN NoTuple
     ELSE IF d.presentModes = 0 \/ d.formats = 0 THEN NoTuple
     ELSE IF gfx = {} THEN NoTuple
     ELSE IF prs = {} THEN NoTuple
     ELSE [found |-> TRUE, gfxQueueIdx |-> Min(gfx) - 1, presentQueueIdx |-> Min(prs) - 1]

NoDevice == [exts |-> {}, presentModes |-> 0, formats |-> 0, families |-> <<>>]

\* the all_of over requiredExtensions of lines 141-147
SupportsRequired(d) == RequiredExtensions \subseteq d.exts

\* the device has a queue family with the graphics bit that also reports
\* surface support, and find_if (line 157) and the index loop (line 162)
\* both stop at it: no family before it has either capability
SharedFirstFamily(d) ==
  \E i \in DOMAIN d.families :
    /\ d.families[i].graphics /\ d.families[i].present
    /\ \A j \in 1..(i - 1) : ~d.families[j].graphics /\ ~d.families[j].present

BoolCount(b) == IF b THEN 1 ELSE 0

\* std::set<uint32_t> qIdxs{gfxQueueIdx, presentQueueIdx}: the distinct
\* indices in ascending order
qIdxs_NoDedup(gfxQueueIdx, presentQueueIdx) ==
  IF gfxQueueIdx < presentQueueIdx
  THEN <<gfxQueueIdx, presentQueueIdx>>
  ELSE <<presentQueueIdx, gfxQueueIdx>>
qIdxs(gfxQueueIdx, presentQueueIdx) ==
  IF gfxQueueIdx = presentQueueIdx THEN <<gfxQueueIdx>>
  ELSE IF gfxQueueIdx < presentQueueIdx THEN <<gfxQueueIdx, presentQueueIdx>>
  ELSE <<presentQueueIdx, gfxQueueIdx>>

\* float const prio{1.0}
prio == 1

\* std::transform(qIdxs ..., back_inserter(queueCreateInfos), ...)
queueCreateInfos(gfxQueueIdx, presentQueueIdx) ==
  LET idxs == qIdxs(gfxQueueIdx, presentQueueIdx)
  IN [k \in DOMAIN idxs |->
        [queueFamilyIndex |-> idxs[k], queueCount |-> 1, pQueuePriorities |-> prio]]

\* Queue{device, familyIndex} before the device exists
NoQueue == [familyIndex |-> -1]

\* extSeen, bothSeen, sharedSeen: how many of the devices visited so far
\* support the required extensions, how many of those have a family with
\* both capabilities, how many of those also report a present mode and a
\* surface format and have that family before any other capable family;
\* extRest: how many of the devices after the returned one, which the
\* constructor never queries, support the required extensions
SelectInit ==
  sel = [phase |-> "idle", count |-> 0, idx |-> 0, dev |-> NoDevice, result |-> NoTuple,
         extSeen |-> 0, bothSeen |-> 0, sharedSeen |-> 0, extRest |-> 0,
         createInfos |-> <<>>, graphicsQueue_ |-> NoQueue, presentQueue_ |-> NoQueue]

\* enumeratePhysicalDevices(instance): any number of devices
EnumerateDevices ==
  /\ sel.phase = "idle"
  /\ \E n \in 0..MaxDevices : sel' = [sel EXCEPT !.phase = "scan", !.count = n]

\* one iteration of for (auto const& physDevice : ...): the queries about the
\* device at position idx, then return its tuple or go on to the next device
VisitDevice ==
  /\ sel.phase = "scan"
  /\ sel.idx < sel.count
  /\ \E d \in PhysDevices :
       LET r == TryDevice(d)
           both == SupportsRequired(d) /\ \E i \in DOMAIN d.families :
                     d.families[i].graphics /\ d.families[i].present
           shared == SupportsRequired(d) /\ d.presentModes > 0 /\ d.formats > 0
                       /\ SharedFirstFamily(d)
           seen == [sel EXCEPT !.dev = d,
                               !.extSeen = @ + BoolCount(SupportsRequired(d)),
                               !.bothSeen = @ + BoolCount(both),
                               !.sharedSeen = @ + BoolCount(shared)]
       IN IF r.found
          THEN \E rest \in 0..(sel.count - sel.idx - 1) :
                  sel' = [seen EXCEPT !.phase = "selected", !.result = r, !.extRest = rest]
          ELSE sel' = [seen EXCEPT !.idx = @ + 1]

\* throw std::runtime_error{"no gpu supporting graphics queue"}
NoSuitableDevice ==
  /\ sel.phase = "scan"
  /\ sel.idx = sel.count
  /\ sel' = [sel EXCEPT !.phase = "failed"]

\* lines 172-199: the queue-create entries, vkCreateDevice, which may fail
\* ("failed to create logical device"), and the two Queue members
CreateLogicalDevice ==
  /\ sel.phase = "selected"
  /\ \E res \in {"VK_SUCCESS", "VK_ERROR_INITIALIZATION_FAILED"} :
       LET infos == queueCreateInfos(sel.result.gfxQueueIdx, sel.result.presentQueueIdx)
       IN sel' = IF res = "VK_SUCCESS"
                 THEN [sel EXCEPT !.phase = "created", !.createInfos = infos,
                                  !.graphicsQueue_ = [familyIndex |-> sel.result.gfxQueueIdx],
                                  !.presentQueue_ = [familyIndex |-> sel.result.presentQueueIdx]]
                 ELSE [sel EXCEPT !.phase = "create_failed", !.createInfos = infos]

\* ------------------------------------------- vulkan.hpp: Instance::Instance
\* main passes std::array{"VK_LAYER_KHRONOS_validation"}; the constructor
\* takes any span of layer names, none by default
LayerNames == {"VK_LAYER_KHRONOS_validation", "VK_LAYER_LUNARG_api_dump", "VK_LAYER_LUNARG_monitor"}

\* all_of(requiredLayers, any_of(availableLayers, svReq == layer.layerName))
allLayersAvailable_AnyOf(requiredLayers, availableLayers) ==
  \E req \in requiredLayers : \E layer \in availableLayers : req = layer
allLayersAvailable(requiredLayers, availableLayers) ==
  \A req \in requiredLayers : \E layer \in availableLayers : req = layer

InstanceInit ==
  inst = [phase |-> "idle", requiredLayers |-> {}, availableLayers |-> {},
          t_ |-> kNil, calls |-> <<>>]

\* the constructor is entered with some requiredLayers, and
\* enumerateInstanceLayerProperties() reports some available layers
InstanceBegin ==
  /\ inst.phase = "idle"
  /\ \E req \in SUBSET LayerNames, avail \in SUBSET LayerNames :
       inst' = [inst EXCEPT !.phase = "check", !.requiredLayers = req, !.availableLayers = avail]

\* lines 89-96: throw "not all required layers available" before anything
\* is created, or go on to build the create info
InstanceCheckLayers ==
  /\ inst.phase = "check"
  /\ inst' = IF allLayersAvailable(inst.requiredLayers, inst.availableLayers)
             THEN [inst EXCEPT !.phase = "create"]
             ELSE [inst EXCEPT !.phase = "layers_unavailable"]

\* lines 116-120: vkCreateInstance; any result but VK_SUCCESS throws
\* "failed to create instance", VK_SUCCESS makes the handle own the instance
InstanceCreate ==
  /\ inst.phase = "create"
  /\ \E res \in {"VK_SUCCESS", "VK_ERROR_INCOMPATIBLE_DRIVER"} :
       inst' = [inst EXCEPT !.phase = IF res = "VK_SUCCESS" THEN "alive" ELSE "create_failed",
                            !.t_ = IF res = "VK_SUCCESS" THEN 1 ELSE kNil,
                            !.calls = Append(@, "vkCreateInstance")]

\* the end of the Instance object's lifetime: ~UniqueHandle calls destroy,
\* that is vkDestroyInstance, on a value that is not nil; when the
\* constructor threw there is no object and no destructor runs
InstanceEnd ==
  /\ inst.phase \in {"alive", "layers_unavailable", "create_failed"}
  /\ inst' = IF inst.phase = "alive" /\ inst.t_ # kNil
             THEN [inst EXCEPT !.phase = "ended", !.t_ = kNil,
                               !.calls = Append(@, "vkDestroyInstance")]
             ELSE [inst EXCEPT !.phase = "ended_" \o inst.phase]

\* ----------------------------------------- vulkan.hpp: Swapchain::Swapchain
\* std::numeric_limits<uint32_t>::max(), the width and height of the
\* "any extent allowed" current extent. The model checker's integers end
\* below 2^32, so the unsigned type is given 30 bits here: its largest value
\* plays the part of 0xFFFFFFFF, and every size and count drawn is far below
UINT32_MAX == 1073741823

\* static_cast<uint32_t>, and arithmetic on uint32_t
Uint32(x) == x % (UINT32_MAX + 1)

SurfaceFormats ==
  [format : {"VK_FORMAT_B8G8R8A8_SRGB", "VK_FORMAT_R8G8B8A8_SRGB"},
   colorSpace : {"VK_COLORSPACE_SRGB_NONLINEAR_KHR", "VK_COLOR_SPACE_EXTENDED_SRGB_LINEAR_EXT"}]
FormatLists == UNION {[1..n -> SurfaceFormats] : n \in 0..MaxFormats}

\* the predicate handed to find_if (lines 246-249)
Preferred ==
  {f \in SurfaceFormats : f.format = "VK_FORMAT_B8G8R8A8_SRGB"
                            /\ f.colorSpace = "VK_COLORSPACE_SRGB_NONLINEAR_KHR"}

\* optalg::find_if: the first element satisfying the predicate, or nullopt
nullopt == [has_value |-> FALSE]
find_if_FirstOnly(collection, matching) ==
  IF collection # <<>> /\ collection[1] \in matching
  THEN [has_value |-> TRUE, value |-> collection[1]]
  ELSE nullopt
find_if(collection, matching) ==
  LET hits == {i \in DOMAIN collection : collection[i] \in matching}
  IN IF hits = {} THEN nullopt
     ELSE [has_value |-> TRUE, value |-> collection[Min(hits)]]

\* std::optional::value_or
value_or(opt, default) == IF opt.has_value THEN opt.value ELSE default

\* VkExtent2D
Extent(w, h) == [width |-> w, height |-> h]

\* what vkGetPhysicalDeviceSurfaceCapabilitiesKHR reports: at least one
\* image, maxImageCount 0 (no limit) or at least minImageCount, the minimum
\* extent no larger than the maximum, the current extent either
\* (0xFFFFFFFF, 0xFFFFFFFF) or within the two
SurfaceCapabilities ==
  {c \in [minImageCount : 1..MaxImages, maxImageCount : 0..MaxImages,
           minImageExtent : [width : 1..MaxExtent, height : 1..MaxExtent],
           maxImageExtent : [width : 1..MaxExtent, height : 1..MaxExtent],
           currentExtent : [width : (1..MaxExtent) \cup {UINT32_MAX},
                            height : (1..MaxExtent) \cup {UINT32_MAX}]] :
     /\ c.maxImageCount = 0 \/ c.maxImageCount >= c.minImageCount
     /\ c.minImageExtent.width <= c.maxImageExtent.width
     /\ c.minImageExtent.height <= c.maxImageExtent.height
     /\ \/ c.currentExtent = Extent(UINT32_MAX, UINT32_MAX)
        \/ /\ c.currentExtent.width \in c.minImageExtent.width..c.maxImageExtent.width
           /\ c.currentExtent.height \in c.minImageExtent.height..c.maxImageExtent.height}

NoCaps ==
  [minImageCount |-> 0, maxImageCount |-> 0, minImageExtent |-> Extent(0, 0),
   maxImageExtent |-> Extent(0, 0), currentExtent |-> Extent(0, 0)]

\* the framebuffer sizes glfw::getFramebufferSize may report
FramebufferSizes == [width : 0..(MaxExtent + 1), height : 0..(MaxExtent + 1)]

\* .minImageCount of the create info (line 259)
minImageCount_AlwaysOneMore(caps) == Uint32(caps.minImageCount + 1)
minImageCount(caps) ==
  IF caps.minImageCount = caps.maxImageCount
  THEN caps.maxImageCount
  ELSE Uint32(caps.minImageCount + 1)

\* std::clamp(v, lo, hi)
clamp_NoUpperBound(v, lo, hi) == IF v < lo THEN lo ELSE v
clamp(v, lo, hi) == IF v < lo THEN lo ELSE IF hi < v THEN hi ELSE v

\* .imageExtent of the create info (lines 262-272); fb is what
\* glfw::getFramebufferSize returned, read only in the else branch
imageExtent(caps, fb) ==
  IF caps.currentExtent.width # UINT32_MAX
  THEN caps.currentExtent
  ELSE Extent(clamp(Uint32(fb.width), caps.minImageExtent.width, caps.maxImageExtent.width),
              clamp(Uint32(fb.height), caps.minImageExtent.height, caps.maxImageExtent.height))

NoFormat == [format |-> "none", colorSpace |-> "none"]
NoSize == Extent(-1, -1)

SwapchainInit ==
  swp = [step |-> "formats", formats |-> <<>>, surfaceFormat |-> NoFormat, caps |-> NoCaps,
         fb |-> NoSize, minImageCount |-> 0, imageExtent |-> Extent(0, 0)]

\* lines 242-251: the surface formats are fetched and one is chosen;
\* formats.front() of an empty list is undefined: the program may crash or
\* go on with any value
ChooseSurfaceFormat ==
  /\ swp.step = "formats"
  /\ \E formats \in FormatLists :
       IF formats = <<>>
       THEN \/ swp' = [swp EXCEPT !.step = "crashed"]
            \/ \E f \in SurfaceFormats : swp' = [swp EXCEPT !.step = "caps", !.surfaceFormat = f]
       ELSE swp' = [swp EXCEPT !.step = "caps", !.formats = formats,
                               !.surfaceFormat = value_or(find_if(formats, Preferred), formats[1])]

\* line 252: the surface capabilities are fetched (the format list is gone)
GetCapabilities ==
  /\ swp.step = "caps"
  /\ \E caps \in SurfaceCapabilities :
       swp' = [swp EXCEPT !.step = "create_info", !.formats = <<>>, !.caps = caps]

\* lines 256-291: the create info is filled in, the framebuffer size being
\* asked for only when the current extent is the sentinel, and
\* vkCreateSwapchainKHR is called, which may fail
CreateSwapchain ==
  /\ swp.step = "create_info"
  /\ \E fb \in FramebufferSizes \cup {NoSize}, res \in {"VK_SUCCESS", "VK_ERROR_SURFACE_LOST_KHR"} :
       /\ (fb = NoSize) = (swp.caps.currentExtent.width # UINT32_MAX)
       /\ swp' = [swp EXCEPT !.step = IF res = "VK_SUCCESS" THEN "created" ELSE "failed",
                             !.fb = fb,
                             !.minImageCount = minImageCount(swp.caps),
                             !.imageExtent = imageExtent(swp.caps, fb)]

\* ------------------------------------------------------- specifications
\* SynchronizedCommandBuffer: cmdBufferReady{device, VK_FENCE_CREATE_SIGNALED_BIT};
\* a semaphore is created unsignaled
LoopInit_FencesUnsignaled ==
  /\ pc = "startup"
  /\ shouldClose = FALSE
  /\ imageViews = 0
  /\ perFrame = 0
  /\ frameIdx = 0
  /\ imgIdx = -1
  /\ acquireResult = "none"
  /\ cmdBufferReady = [i \in Slots |-> FALSE]
  /\ imageAvailable = [i \in Slots |-> FALSE]
  /\ renderFinished = [i \in Slots |-> FALSE]
  /\ recordedFb = [i \in Slots |-> -1]
  /\ gpuQueue = <<>>
  /\ everSubmitted = {}
  /\ presentOutOfDate = FALSE
  /\ iterOps = <<>>
  /\ scope = <<>>
  /\ bundle = <<>>
  /\ lastBuild = NoBuild
  /\ presentResult = "none"
  /\ run = FirstRun
LoopInit ==
  /\ pc = "startup"
  /\ shouldClose = FALSE
  /\ imageViews = 0
  /\ perFrame = 0
  /\ frameIdx = 0
  /\ imgIdx = -1
  /\ acquireResult = "none"
  /\ cmdBufferReady = [i \in Slots |-> TRUE]
  /\ imageAvailable = [i \in Slots |-> FALSE]
  /\ renderFinished = [i \in Slots |-> FALSE]
  /\ recordedFb = [i \in Slots |-> -1]
  /\ gpuQueue = <<>>
  /\ everSubmitted = {}
  /\ presentOutOfDate = FALSE
  /\ iterOps = <<>>
  /\ scope = <<>>
  /\ bundle = <<>>
  /\ lastBuild = NoBuild
  /\ presentResult = "none"
  /\ run = FirstRun

HandleInit ==
  /\ life = [h \in Handles |-> "unborn"]
  /\ cls = [h \in Handles |-> "none"]
  /\ t_ = [h \in Handles |-> kNil]
  /\ parent_ = [h \in Handles |-> NoParent]
  /\ callbacks_ = [h \in Handles |-> "none"]
  /\ wrapped = [v \in Values |-> NotWrapped]
  /\ destroyLog = <<>>
  /\ lastOp = NoOp

Init == HandleInit /\ LoopInit /\ SelectInit /\ InstanceInit /\ SwapchainInit

HandleNext ==
  \/ \E h \in Handles, p \in Parents, v \in Values \cup {kNil}, ac \in Callbacks :
       Construct(h, p, v, ac) /\ UNCHANGED <<loopVars, mainVars, bootVars>>
  \/ \E h \in Handles, v \in Values \cup {kNil} : HolderConstruct(h, v) /\ UNCHANGED <<loopVars, mainVars, bootVars>>
  \/ \E b \in Handles, a \in Handles : MoveConstruct(b, a) /\ UNCHANGED <<loopVars, mainVars, bootVars>>
  \/ \E b \in Handles, a \in Handles : HolderMoveConstruct(b, a) /\ UNCHANGED <<loopVars, mainVars, bootVars>>
  \/ \E d \in Handles, s \in Handles : MoveAssign(d, s) /\ UNCHANGED <<loopVars, mainVars, bootVars>>
  \/ \E d \in Handles, s \in Handles : HolderMoveAssign(d, s) /\ UNCHANGED <<loopVars, mainVars, bootVars>>
  \/ \E h \in Handles : reset(h) /\ UNCHANGED <<loopVars, mainVars, bootVars>>
  \/ \E h \in Handles : Destruct(h) /\ UNCHANGED <<loopVars, mainVars, bootVars>>
  \/ \E h \in Handles : HolderDestruct(h) /\ UNCHANGED <<loopVars, mainVars, bootVars>>

Next ==
  \/ Startup /\ UNCHANGED <<handleVars, bootVars>>
  \/ LoopTop /\ UNCHANGED <<handleVars, mainVars, bootVars>>
  \/ PollEvents /\ UNCHANGED <<handleVars, mainVars, bootVars>>
  \/ SelectSlot /\ UNCHANGED <<handleVars, mainVars, bootVars>>
  \/ FenceWait /\ RunWait /\ UNCHANGED <<handleVars, bootVars, scope, bundle, lastBuild, presentResult>>
  \/ Acquire /\ RunAcquire /\ UNCHANGED <<handleVars, bootVars, scope, bundle, lastBuild, presentResult>>
  \/ FenceReset /\ RunReset /\ UNCHANGED <<handleVars, bootVars, scope, bundle, lastBuild, presentResult>>
  \/ Record /\ RunRecord /\ UNCHANGED <<handleVars, bootVars, scope, bundle, lastBuild, presentResult>>
  \/ Submit /\ RunSubmit /\ UNCHANGED <<handleVars, bootVars, scope, bundle, lastBuild, presentResult>>
  \/ Present /\ RunPresent /\ UNCHANGED <<handleVars, bootVars>>
  \/ Advance /\ RunAdvance /\ UNCHANGED <<handleVars, bootVars>>
  \/ CatchWaitIdle /\ UNCHANGED <<handleVars, mainVars, bootVars>>
  \/ CatchEmplace /\ UNCHANGED <<handleVars, bootVars>>
  \/ CatchResetIndex /\ UNCHANGED <<handleVars, mainVars, bootVars>>
  \/ ExitWaitIdle /\ UNCHANGED <<handleVars, mainVars, bootVars>>
  \/ ScopeExit /\ UNCHANGED <<handleVars, bootVars>>
  \/ Unwind /\ UNCHANGED <<handleVars, bootVars>>
  \/ GpuComplete /\ UNCHANGED <<handleVars, mainVars, bootVars>>

\* the steps of the thread running main(): everything but the GPU's
\* completions and the unwinding that may or may not precede std::terminate
MainThread ==
  \/ Startup /\ UNCHANGED <<handleVars, bootVars>>
  \/ LoopTop /\ UNCHANGED <<handleVars, mainVars, bootVars>>
  \/ PollEvents /\ UNCHANGED <<handleVars, mainVars, bootVars>>
  \/ SelectSlot /\ UNCHANGED <<handleVars, mainVars, bootVars>>
  \/ FenceWait /\ RunWait /\ UNCHANGED <<handleVars, bootVars, scope, bundle, lastBuild, presentResult>>
  \/ Acquire /\ RunAcquire /\ UNCHANGED <<handleVars, bootVars, scope, bundle, lastBuild, presentResult>>
  \/ FenceReset /\ RunReset /\ UNCHANGED <<handleVars, bootVars, scope, bundle, lastBuild, presentResult>>
  \/ Record /\ RunRecord /\ UNCHANGED <<handleVars, bootVars, scope, bundle, lastBuild, presentResult>>
  \/ Submit /\ RunSubmit /\ UNCHANGED <<handleVars, bootVars, scope, bundle, lastBuild, presentResult>>
  \/ Present /\ RunPresent /\ UNCHANGED <<handleVars, bootVars>>
  \/ Advance /\ RunAdvance /\ UNCHANGED <<handleVars, bootVars>>
  \/ CatchWaitIdle /\ UNCHANGED <<handleVars, mainVars, bootVars>>
  \/ CatchEmplace /\ UNCHANGED <<handleVars, bootVars>>
  \/ CatchResetIndex /\ UNCHANGED <<handleVars, mainVars, bootVars>>
  \/ ExitWaitIdle /\ UNCHANGED <<handleVars, mainVars, bootVars>>
  \/ ScopeExit /\ UNCHANGED <<handleVars, bootVars>>

DeviceNext ==
  \/ EnumerateDevices /\ UNCHANGED <<handleVars, loopVars, mainVars, inst, swp>>
  \/ VisitDevice /\ UNCHANGED <<handleVars, loopVars, mainVars, inst, swp>>
  \/ NoSuitableDevice /\ UNCHANGED <<handleVars, loopVars, mainVars, inst, swp>>
  \/ CreateLogicalDevice /\ UNCHANGED <<handleVars, loopVars, mainVars, inst, swp>>

InstanceNext ==
  \/ InstanceBegin /\ UNCHANGED <<handleVars, loopVars, mainVars, sel, swp>>
  \/ InstanceCheckLayers /\ UNCHANGED <<handleVars, loopVars, mainVars, sel, swp>>
  \/ InstanceCreate /\ UNCHANGED <<handleVars, loopVars, mainVars, sel, swp>>
  \/ InstanceEnd /\ UNCHANGED <<handleVars, loopVars, mainVars, sel, swp>>

\* Instance::Instance over any requested and any available layers
InstanceSpec == Init /\ [][InstanceNext]_vars

SwapchainNext ==
  \/ ChooseSurfaceFormat /\ UNCHANGED <<handleVars, loopVars, mainVars, sel, inst>>
  \/ GetCapabilities /\ UNCHANGED <<handleVars, loopVars, mainVars, sel, inst>>
  \/ CreateSwapchain /\ UNCHANGED <<handleVars, loopVars, mainVars, sel, inst>>

\* Swapchain::Swapchain over anything the surface and the window may report
SwapchainSpec == Init /\ [][SwapchainNext]_vars

\* Device::Device's selection over any enumeration of physical devices
DeviceSpec == Init /\ [][DeviceNext]_vars

\* the handle operations, in any order a program may apply them
HandleSpec == Init /\ [][HandleNext]_vars

\* main(): the render loop with the GPU completing work concurrently
Spec == Init /\ [][Next]_vars

\* the GPU completes every workload submitted to it, and a thread blocked in
\* vkWaitForFences resumes once the fence is signaled
FairSpec ==
  /\ Spec
  /\ WF_vars(GpuComplete /\ UNCHANGED <<handleVars, mainVars, bootVars>>)
  /\ WF_vars(FenceWait /\ RunWait /\ UNCHANGED <<handleVars, bootVars, scope, bundle, lastBuild, presentResult>>)

\* in addition the thread running main() keeps running: it takes its next
\* step whenever it is not blocked
ProgressSpec == FairSpec /\ WF_vars(MainThread)

\* the resources an automatic object of main() owns
Members(obj) ==
  CASE obj = Obj("renderInfo") -> {bundle[i] : i \in DOMAIN bundle}
    [] obj = Obj("perFrame") ->
         UNION {{ImageAvailable(i), RenderFinished(i), CmdBufferReady(i)} : i \in 0..(perFrame - 1)}
    [] OTHER -> {obj}

\* every resource of main() that has been created and not destroyed
Alive == UNION {Members(scope[i]) : i \in DOMAIN scope}

\* what a resource was created from (the arguments of its constructor): its
\* parent handle and the objects it refers to
DependsOn(x) ==
  CASE x[1] = "glfwState" -> {}
    [] x[1] \in {"window", "instance"} -> {Obj("glfwState")}
    [] x[1] = "surface" -> {Obj("instance"), Obj("window")}
    [] x[1] = "device" -> {Obj("instance"), Obj("surface")}
    [] x[1] \in {"shaderLayout", "vertexShader", "fragmentShader", "commandPool"} -> {Obj("device")}
    [] x[1] = "swapchain" -> {Obj("device"), Obj("surface"), Obj("window")}
    [] x[1] = "imageView" -> {Obj("device"), Obj("swapchain")}
    [] x[1] = "renderPass" -> {Obj("device")}
    [] x[1] = "pipeline" -> {Obj("device"), Obj("vertexShader"), Obj("fragmentShader"),
                             Obj("shaderLayout"), Obj("renderPass")}
    [] x[1] = "framebuffer" -> {Obj("device"), <<"imageView", x[2]>>, Obj("renderPass")}
    [] x[1] \in {"imageAvailable", "renderFinished", "cmdBufferReady"} -> {Obj("device")}

\* ------------------------------------------------------- handle claims
LogValues(log) == [i \in 1..Len(log) |-> log[i].value]
Destroyed(v) == \E i \in 1..Len(destroyLog) : destroyLog[i].value = v
WasWrapped(v) == wrapped[v] # NotWrapped

\* C1: over any sequence of construct, move-construct, move-assign (self
\* included), reset and destruct, the bound destroy operation is never called
\* with nil, is called at most once per value, and once no handle is left
\* alive every value a constructor wrapped has been destroyed (exactly once).
C1_ExactlyOnceDestruction ==
  /\ \A i \in 1..Len(destroyLog) : destroyLog[i].value # kNil
  /\ \A i, j \in 1..Len(destroyLog) :
       destroyLog[i].value = destroyLog[j].value => i = j
  /\ (\A h \in Handles : life[h] # "live") =>
       \A v \in Values : WasWrapped(v) => Destroyed(v)

\* every wrapped value was moved around and all handles are gone again
C1_Witness ==
  /\ \A h \in Handles : life[h] = "dead"
  /\ \A v \in Values : WasWrapped(v)
  /\ Len(destroyLog) = NumValues

\* C2: move-constructing b from a leaves a holding nil and b holding the
\* value a held, and calls no destroy; destructing or resetting a right
\* afterwards calls no destroy either.
C2_MoveConstructTransfers ==
  [][ /\ lastOp'.op = "MoveConstruct" =>
           /\ t_'[lastOp'.src] = kNil
           /\ t_'[lastOp'.dst] = t_[lastOp'.src]
           /\ destroyLog' = destroyLog
      /\ (/\ lastOp.op = "MoveConstruct"
          /\ lastOp'.op \in {"Destruct", "Reset"}
          /\ lastOp'.dst = lastOp.src) => destroyLog' = destroyLog
    ]_vars

\* b was just move-constructed from a and holds a's value; a holds nil
C2_Witness ==
  /\ lastOp.op = "MoveConstruct"
  /\ t_[lastOp.dst] # kNil
  /\ t_[lastOp.src] = kNil
  /\ life[lastOp.src] = "live"
  /\ destroyLog = <<>>

\* C3: move-assigning s into another handle d destroys d's value (if not nil)
\* exactly once, with d's old value and not s's; afterwards d holds s's former
\* value, s holds nil, and s's former value is not destroyed by the
\* assignment.  A value is only ever destroyed by destructing, resetting or
\* assigning over the handle that holds it.
C3_MoveAssignDestroysOldValue ==
  [][ /\ (lastOp'.op = "MoveAssign" /\ lastOp'.dst # lastOp'.src) =>
           LET d == lastOp'.dst
               s == lastOp'.src
           IN /\ LogValues(destroyLog') =
                   IF t_[d] # kNil THEN Append(LogValues(destroyLog), t_[d])
                                   ELSE LogValues(destroyLog)
              /\ t_'[d] = t_[s]
              /\ t_'[s] = kNil
              /\ t_[s] # kNil => ~\E i \in 1..Len(destroyLog') : destroyLog'[i].value = t_[s]
      /\ destroyLog' # destroyLog =>
           /\ lastOp'.op \in {"MoveAssign", "Reset", "Destruct"}
           /\ Len(destroyLog') = Len(destroyLog) + 1
           /\ destroyLog'[Len(destroyLog')].value = t_[lastOp'.dst]
    ]_vars

\* d held a value, s was assigned over it: d's old value is destroyed, s's lives on in d
C3_Witness ==
  /\ lastOp.op = "MoveAssign"
  /\ lastOp.dst # lastOp.src
  /\ Len(destroyLog) = 1
  /\ t_[lastOp.dst] # kNil
  /\ t_[lastOp.dst] # destroyLog[1].value
  /\ t_[lastOp.src] = kNil

\* C4: move-assigning a handle to itself calls no destroy and leaves the
\* handle holding the same value; destructing the handle afterwards destroys
\* that value, which had not been destroyed before, exactly once.
C4_SelfMoveAssign ==
  [][ /\ (lastOp'.op = "MoveAssign" /\ lastOp'.dst = lastOp'.src) =>
           /\ destroyLog' = destroyLog
           /\ t_' = t_
           /\ parent_' = parent_
           /\ callbacks_' = callbacks_
      /\ (/\ lastOp.op = "MoveAssign"
          /\ lastOp.dst = lastOp.src
          /\ lastOp'.op = "Destruct"
          /\ lastOp'.dst = lastOp.dst
          /\ t_[lastOp.dst] # kNil) =>
           /\ ~Destroyed(t_[lastOp.dst])
           /\ LogValues(destroyLog') = Append(LogValues(destroyLog), t_[lastOp.dst])
    ]_vars

\* a handle holding a value was just move-assigned to itself
C4_Witness ==
  /\ lastOp.op = "MoveAssign"
  /\ lastOp.dst = lastOp.src
  /\ t_[lastOp.dst] # kNil
  /\ ~Destroyed(t_[lastOp.dst])

\* C5: every destroy call of a ParentedUniqueHandle receives the parent and
\* the allocation callbacks its value was constructed with, however the
\* handle was moved; and a handle holding a value holds that value's parent.
C5_DestroyReceivesOwnParent ==
  /\ \A i \in 1..Len(destroyLog) :
       destroyLog[i].value # kNil =>
         /\ destroyLog[i].parent = wrapped[destroyLog[i].value].parent
         /\ destroyLog[i].callbacks = wrapped[destroyLog[i].value].callbacks
  /\ \A h \in Handles :
       (life[h] = "live" /\ cls[h] = "ParentedUniqueHandle" /\ t_[h] # kNil) =>
         /\ parent_[h] = wrapped[t_[h]].parent
         /\ callbacks_[h] = wrapped[t_[h]].callbacks

\* s (parent P2, value v2) was assigned over d (parent P1, value v1): v1 went
\* with P1 and d now carries v2 with P2
C5_Witness ==
  /\ lastOp.op = "MoveAssign"
  /\ lastOp.dst # lastOp.src
  /\ cls[lastOp.dst] = "ParentedUniqueHandle"
  /\ t_[lastOp.dst] # kNil
  /\ Len(destroyLog) = 1
  /\ destroyLog[1].parent # parent_[lastOp.dst]
  /\ destroyLog[1].parent = wrapped[destroyLog[1].value].parent

\* --------------------------------------------------------- loop claims
InFlight(i) == \E k \in 1..Len(gpuQueue) : gpuQueue[k] = i
IsPrefix(s, t) == Len(s) <= Len(t) /\ s = SubSeq(t, 1, Len(s))
BetweenIterations == pc \in {"loop_top", "poll", "exit_idle", "done"}

\* the iteration's acquire raised OutOfDateError
Invalidated ==
  /\ acquireResult # "none"
  /\ acquireNextImageKHR(acquireResult, ErrorOnSuboptimal) = "OutOfDateError"

\* the operations of one rendered frame on slot i presenting image k
FrameOps(i, k) ==
  << Ev("wait", None, None, None, CmdBufferReady(i), -1),
     Ev("acquire", None, None, ImageAvailable(i), None, -1),
     Ev("reset", None, None, None, CmdBufferReady(i), -1),
     Ev("record", CmdBuffer(i), None, None, None, -1),
     Ev("submit", CmdBuffer(i), ImageAvailable(i), RenderFinished(i), CmdBufferReady(i), -1),
     Ev("present", None, RenderFinished(i), None, None, k),
     Ev("advance", None, None, None, None, -1) >>

\* the operations of an invalidated iteration on slot i
RecreateOps(i) ==
  << Ev("wait", None, None, None, CmdBufferReady(i), -1),
     Ev("acquire", None, None, ImageAvailable(i), None, -1),
     Ev("idle", None, None, None, None, -1),
     Ev("destroy_bundle", None, None, None, None, -1),
     Ev("build_bundle", None, None, None, None, -1),
     Ev("reset_idx", None, None, None, None, -1) >>

\* number of operations done when main() stands at a position inside a frame
OpsBefore(p) ==
  CASE p = "wait" -> 0
    [] p = "acquire" -> 1
    [] p = "fence_reset" -> 2
    [] p = "record" -> 3
    [] p = "submit" -> 4
    [] p = "present" -> 5
    [] p = "advance" -> 6

\* C6: while the CPU resets the fence of a slot, re-records its command
\* buffer and until it submits it, no submission of that command buffer is
\* in flight: the previous submission of the slot has completed and signaled
\* the slot's fence.
C6_NoRecordWhileInFlight ==
  pc \in {"fence_reset", "record", "submit"} => ~InFlight(frameIdx)

\* a slot used before is about to be recorded again while another slot is in flight
C6_Witness ==
  /\ pc = "record"
  /\ frameIdx \in everSubmitted
  /\ gpuQueue # <<>>

\* C7: in an iteration that is not invalidated the operations are those of
\* FrameOps on the slot at frameIdx, each once and in that order: wait on the
\* slot fence, acquire with its image-available semaphore, reset the fence,
\* record, submit (waiting image-available, signalling render-finished and
\* the fence), present (waiting render-finished) and advance.
C7_FrameOperationOrder ==
  ~Invalidated =>
    \E i \in Slots :
      /\ IsPrefix(iterOps, FrameOps(i, imgIdx))
      /\ pc \in {"wait", "acquire", "fence_reset", "record", "submit", "present", "advance"} =>
           /\ i = frameIdx
           /\ Len(iterOps) = OpsBefore(pc)
      /\ (BetweenIterations /\ iterOps # <<>>) =>
           /\ iterOps = FrameOps(i, imgIdx)
           /\ frameIdx = (IF i + 1 >= imageViews THEN 0 ELSE i + 1)

\* a frame on slot 1 has just been completed
C7_Witness ==
  /\ pc = "loop_top"
  /\ ~Invalidated
  /\ iterOps = FrameOps(1, imgIdx)
  /\ imgIdx >= 0

\* C8: the command buffer submitted and presented in an iteration was
\* recorded on the framebuffer of the image that iteration's acquire returned.
C8_RecordsAcquiredImage ==
  pc \in {"submit", "present"} => recordedFb[frameIdx] = imgIdx

\* C9: an iteration whose acquire reports out-of-date performs no fence
\* reset, record, submit or present; it waits for the device to idle (nothing
\* in flight when the old bundle is destroyed), destroys the old bundle,
\* builds a new one and sets frameIdx to 0, which is its value when the next
\* iteration starts.
C9_OutOfDateRecreates ==
  acquireResult = "VK_ERROR_OUT_OF_DATE_KHR" =>
    \E i \in Slots :
      /\ IsPrefix(iterOps, RecreateOps(i))
      /\ pc = "catch_emplace" => gpuQueue = <<>>
      /\ pc \notin {"acquire", "catch_idle", "catch_emplace", "catch_reset", "fatal",
                   "scope_exit", "returned"} =>
           /\ BetweenIterations
           /\ iterOps = RecreateOps(i)
           /\ frameIdx = 0
           /\ imageViews > 0

\* the iteration on slot 1 was invalidated after earlier frames had been
\* submitted, and the recreation has just run
C9_Witness ==
  /\ acquireResult = "VK_ERROR_OUT_OF_DATE_KHR"
  /\ pc = "loop_top"
  /\ iterOps = RecreateOps(1)
  /\ everSubmitted # {}
  /\ frameIdx = 0

\* C10: once a present call has reported the out-of-date condition for the
\* current bundle, no further frame is recorded and submitted with that
\* bundle before it is recreated.
C10_PresentOutOfDateInvalidates ==
  presentOutOfDate => pc \notin {"submit", "present"}

\* C11: while a swapchain is being recreated the old bundle stays whole until
\* the device has been waited idle, and at the moment it is destroyed no
\* submitted GPU work is in flight: the destruction directly follows the wait.
C11_IdleBeforeBundleDestroy ==
  /\ pc = "catch_idle" => bundle = Components(imageViews)
  /\ pc = "catch_emplace" =>
       /\ gpuQueue = <<>>
       /\ bundle = Components(imageViews)
       /\ iterOps[Len(iterOps)].op = "idle"
  /\ \A k \in 1..Len(iterOps) :
       iterOps[k].op = "destroy_bundle" => (k > 1 /\ iterOps[k - 1].op = "idle")

\* frames had been submitted, the device has been waited idle, and the old
\* bundle is about to be destroyed
C11_Witness ==
  /\ pc = "catch_emplace"
  /\ Cardinality(everSubmitted) >= 2
  /\ bundle # <<>>

SuccessfulPresent == {"VK_SUCCESS", "VK_SUBOPTIMAL_KHR"}

\* C12: frameIdx is below the image count of the current bundle; the step
\* that advances it comes after a submit and a present that both succeeded and
\* adds one modulo the image count; nothing else changes it except the reset
\* to 0 that ends a recreation.
C12_FrameIndexCycles ==
  [][ /\ (imageViews' > 0 /\ pc' # "catch_reset") => frameIdx' \in 0..(imageViews' - 1)
      /\ (pc = "advance" /\ pc' # pc) =>
           /\ iterOps[Len(iterOps)].op = "present"
           /\ presentResult \in SuccessfulPresent
           /\ frameIdx' = (frameIdx + 1) % imageViews
      /\ (pc # "advance" /\ frameIdx' # frameIdx) => (pc = "catch_reset" /\ frameIdx' = 0)
    ]_vars

\* C13: on a 2-image bundle, after k undisturbed frames there have been k
\* submissions and k presents, every frame waited on and reset the fence of
\* its slot once, and frameIdx after frame j was j mod 2; after 5 frames the
\* sequence is 1, 0, 1, 0, 1 with 5 submissions and 5 presents.
C13_TwoImagesFiveFrames ==
  (run.state = "clean" /\ perFrame = 2 /\ pc = "loop_top") =>
    LET k == run.frames
    IN /\ run.submits = k
       /\ run.presents = k
       /\ Len(run.idxLog) = k
       /\ \A j \in 1..k : run.idxLog[j] = j % 2
       /\ \A sl \in {0, 1} :
            /\ run.waits[sl] = Cardinality({j \in 0..(k - 1) : j % 2 = sl})
            /\ run.resets[sl] = run.waits[sl]
       /\ k >= 5 => SubSeq(run.idxLog, 1, 5) = <<1, 0, 1, 0, 1>>
       /\ k = 5 => (run.submits = 5 /\ run.presents = 5 /\ run.waits[0] = 3 /\ run.waits[1] = 2)

\* five undisturbed frames on two images have been rendered
C13_Witness ==
  /\ run.state = "clean"
  /\ run.frames = 5
  /\ perFrame = 2
  /\ pc = "loop_top"

\* C14: a fence the loop waits on is signaled or has a submission in flight
\* that will signal it; a slot never submitted has its fence signaled (created
\* so); and with the GPU completing its work every wait returns.
C14_FenceWaitReturns ==
  /\ [](pc = "wait" => (cmdBufferReady[frameIdx] \/ InFlight(frameIdx)))
  /\ []((pc = "wait" /\ frameIdx \notin everSubmitted) => cmdBufferReady[frameIdx])
  /\ ((pc = "wait") ~> (pc = "acquire"))

\* the loop stands at a wait that has to block: the slot's previous
\* submission is still in flight
C14_Witness ==
  /\ pc = "wait"
  /\ ~cmdBufferReady[frameIdx]
  /\ InFlight(frameIdx)

\* C15: when the window is closed, nothing of main() is destroyed before the
\* device has been waited idle after the last iteration, and from then on,
\* through the destruction of every object, no GPU work is in flight.
C15_IdleBeforeShutdown ==
  /\ pc \in {"loop_top", "poll", "select", "wait", "acquire", "fence_reset", "record", "submit",
             "present", "advance", "exit_idle", "done"} =>
       (scope = MainDecls /\ bundle = Components(imageViews))
  /\ pc \in {"done", "scope_exit", "returned"} => (shouldClose /\ gpuQueue = <<>>)

\* frames were submitted, the window was closed, and the frame slots and the
\* bundle have been destroyed while the device is still there
C15_Witness ==
  /\ pc = "scope_exit"
  /\ Cardinality(everSubmitted) >= 2
  /\ scope = SubSeq(MainDecls, 1, 9)

\* C16: a present (or submit) that reports a failure other than the
\* invalidation results ends the loop with a fatal error: the loop does not
\* go on to advance frameIdx.
C16_SubmitPresentFailureFatal ==
  presentResult \notin {"none", "VK_SUCCESS", "VK_SUBOPTIMAL_KHR", "VK_ERROR_OUT_OF_DATE_KHR"} =>
    pc = "fatal"

\* the outcome the acquire wrapper is to produce for a result
AcquireClass(res, strict) ==
  CASE res = "VK_SUCCESS" -> "index"
    [] res = "VK_SUBOPTIMAL_KHR" -> IF strict THEN "OutOfDateError" ELSE "index"
    [] res = "VK_ERROR_OUT_OF_DATE_KHR" -> "OutOfDateError"
    [] OTHER -> "runtime_error"

\* C17: the acquire wrapper maps SUCCESS to an image index, SUBOPTIMAL to an
\* index when not strict and to OutOfDateError when strict, OUT_OF_DATE to
\* OutOfDateError, anything else to a fatal error; in the loop (strict) the
\* iteration continues, enters the recreation handler, or is aborted accordingly.
C17_AcquireClassification ==
  /\ \A res \in AcquireResults, strict \in BOOLEAN :
       acquireNextImageKHR(res, strict) = AcquireClass(res, strict)
  /\ pc \in {"fence_reset", "record", "submit", "present", "advance"} =>
       (acquireResult = "VK_SUCCESS" /\ imgIdx \in 0..(imageViews - 1))
  /\ pc \in {"catch_idle", "catch_emplace", "catch_reset"} =>
       (acquireResult \in {"VK_ERROR_OUT_OF_DATE_KHR", "VK_SUBOPTIMAL_KHR"} /\ imgIdx = -1)
  /\ acquireResult = "VK_ERROR_DEVICE_LOST" => (pc = "fatal" /\ imgIdx = -1)

\* a suboptimal acquire has taken the strict loop into the recreation handler
C17_Witness ==
  /\ pc = "catch_idle"
  /\ acquireResult = "VK_SUBOPTIMAL_KHR"

Occurrences(seq, c) == Cardinality({i \in 1..Len(seq) : seq[i] = c})

\* C18: when a create call fails while a bundle is built, every component
\* created before it has been destroyed exactly once, renderInfo holds no
\* bundle, and the exception is in flight (no further frame); a bundle that
\* was built is held whole; a frame is only ever rendered with a whole bundle.
C18_BundleAllOrNothing ==
  /\ ~lastBuild.ok =>
       /\ \A i \in 1..Len(lastBuild.created) :
            Occurrences(lastBuild.destroyed, lastBuild.created[i]) = 1
       /\ Len(lastBuild.destroyed) = Len(lastBuild.created)
       /\ lastBuild.held = <<>>
       /\ bundle = <<>>
       /\ imageViews = 0
       /\ pc = "fatal"
  /\ (lastBuild.ok /\ lastBuild.created # <<>>) =>
       /\ lastBuild.destroyed = <<>>
       /\ bundle = lastBuild.created
  /\ pc \in {"select", "wait", "acquire", "fence_reset", "record", "submit", "present", "advance"} =>
       (imageViews > 0 /\ bundle = Components(imageViews))

\* a recreation failed at its second framebuffer: the swapchain, two image
\* views, render pass, pipeline and first framebuffer were destroyed again
C18_Witness ==
  /\ ~lastBuild.ok
  /\ Invalidated
  /\ Len(lastBuild.created) = 6
  /\ Len(lastBuild.destroyed) = 6
  /\ bundle = <<>>

\* C19: at every moment, on every path out of main(), whatever a live
\* resource was created from is still alive: device children go before the
\* device, swapchain and device before the surface, the surface before the
\* instance, window and instance before glfwTerminate.
C19_ChildrenBeforeParents ==
  \A x \in Alive : DependsOn(x) \subseteq Alive

\* the frame slots, bundle, command pool, shaders and layout are gone, the
\* device and what it was created from are still alive
C19_Witness ==
  /\ pc = "scope_exit"
  /\ scope = SubSeq(MainDecls, 1, 5)
  /\ everSubmitted # {}

\* the four conditions for a physical device to be usable
Satisfies(d) ==
  /\ RequiredExtensions \subseteq d.exts
  /\ d.presentModes > 0 /\ d.formats > 0
  /\ \E i \in DOMAIN d.families : d.families[i].graphics
  /\ \E i \in DOMAIN d.families : d.families[i].present

\* C20: every device the selection passes over fails one of the four
\* conditions, the device it returns satisfies all four, with the lowest
\* graphics-capable family index and the lowest present-capable family index;
\* it fails exactly when every enumerated device was passed over.
C20_FirstSuitableDevice ==
  /\ (sel.phase = "scan" /\ sel.idx > 0) => ~Satisfies(sel.dev)
  /\ sel.phase \in {"selected", "created", "create_failed"} =>
       LET fam == sel.dev.families
           g == sel.result.gfxQueueIdx + 1
           p == sel.result.presentQueueIdx + 1
       IN /\ Satisfies(sel.dev)
          /\ sel.idx < sel.count
          /\ g \in DOMAIN fam /\ fam[g].graphics
          /\ \A i \in 1..(g - 1) : ~fam[i].graphics
          /\ p \in DOMAIN fam /\ fam[p].present
          /\ \A i \in 1..(p - 1) : ~fam[i].present
  /\ sel.phase = "failed" => (sel.idx = sel.count /\ (sel.count > 0 => ~Satisfies(sel.dev)))

\* the second device was selected after the first was passed over; its
\* graphics family is not its first family and differs from its present family
C20_Witness ==
  /\ sel.phase = "selected"
  /\ sel.idx = 1
  /\ sel.result.gfxQueueIdx = 1
  /\ sel.result.presentQueueIdx = 0

\* the selection has ended: a tuple was returned (and the logical device
\* then created or not) or every device was passed over
SelectionEnded == sel.phase \in {"selected", "created", "create_failed", "failed"}

\* C21 as stated: whenever exactly one of the physical devices supports the
\* required extension and has a queue family with both graphics and present
\* support, the selection returns that device with one and the same family
\* index, a family with both capabilities, for the graphics and the present
\* role.
C21_AsStated ==
  (SelectionEnded /\ sel.extSeen + sel.extRest = 1 /\ sel.bothSeen = 1) =>
     LET fam == sel.dev.families
         g == sel.result.gfxQueueIdx + 1
         p == sel.result.presentQueueIdx + 1
     IN /\ sel.phase # "failed"
        /\ SupportsRequired(sel.dev)
        /\ g = p
        /\ g \in DOMAIN fam /\ fam[g].graphics /\ fam[g].present

\* C21 amended: whenever exactly one of the physical devices supports the
\* required extension, and that device reports a present mode and a surface
\* format and its family with both capabilities comes before any other family
\* with graphics or present support, the selection returns that device with
\* that family index for both roles.
C21_SharedFirstFamilyForBothRoles ==
  (SelectionEnded /\ sel.extSeen + sel.extRest = 1 /\ sel.sharedSeen = 1) =>
     LET fam == sel.dev.families
         g == sel.result.gfxQueueIdx + 1
         p == sel.result.presentQueueIdx + 1
     IN /\ sel.phase # "failed"
        /\ SupportsRequired(sel.dev)
        /\ g = p
        /\ g \in DOMAIN fam /\ fam[g].graphics /\ fam[g].present

\* the only device with the extension came second; its second family has
\* both capabilities and its first family has neither
C21_Witness ==
  /\ sel.phase = "selected"
  /\ sel.idx = 1
  /\ sel.extSeen + sel.extRest = 1
  /\ sel.sharedSeen = 1
  /\ sel.result.gfxQueueIdx = 1
  /\ sel.result.presentQueueIdx = 1

\* C22: the queue-create entries handed to vkCreateDevice are one per
\* distinct index among the graphics and the present family: two entries
\* with different indices when the families differ, one when they are the
\* same, each with queue count 1 and priority 1.0.
C22_OneQueueEntryPerDistinctFamily ==
  sel.phase \in {"created", "create_failed"} =>
     LET infos == sel.createInfos
         g == sel.result.gfxQueueIdx
         p == sel.result.presentQueueIdx
     IN /\ {infos[k].queueFamilyIndex : k \in DOMAIN infos} = {g, p}
        /\ Len(infos) = IF g = p THEN 1 ELSE 2
        /\ \A k, l \in DOMAIN infos :
              k # l => infos[k].queueFamilyIndex # infos[l].queueFamilyIndex
        /\ \A k \in DOMAIN infos :
              infos[k].queueCount = 1 /\ infos[k].pQueuePriorities = 1

\* a device whose graphics family is its second and present family its
\* first was created with two entries, and its queues carry those indices
C22_Witness ==
  /\ sel.phase = "created"
  /\ Len(sel.createInfos) = 2
  /\ sel.graphicsQueue_.familyIndex = 1
  /\ sel.presentQueue_.familyIndex = 0

\* C23: Instance construction throws exactly when some requested layer is
\* not among the enumerated available layers, and then vkCreateInstance was
\* never called and nothing is destroyed afterwards; when every requested
\* layer is available, also when none is requested, it goes on to call
\* vkCreateInstance.
C23_MissingLayerFailsBeforeCreation ==
  LET missing == inst.requiredLayers \ inst.availableLayers
  IN /\ inst.phase \in {"layers_unavailable", "ended_layers_unavailable"} =>
          (missing # {} /\ inst.calls = <<>> /\ inst.t_ = kNil)
     /\ inst.phase \in {"create", "alive", "create_failed", "ended", "ended_create_failed"} =>
          missing = {}
     /\ inst.phase \in {"alive", "create_failed", "ended", "ended_create_failed"} =>
          (inst.calls # <<>> /\ inst.calls[1] = "vkCreateInstance")
     /\ inst.phase = "ended" => inst.calls = <<"vkCreateInstance", "vkDestroyInstance">>

\* two layers were requested, only one of them is available: construction
\* has thrown and the scope has ended without any API call
C23_Witness ==
  /\ inst.phase = "ended_layers_unavailable"
  /\ Cardinality(inst.requiredLayers) = 2
  /\ Cardinality(inst.requiredLayers \cap inst.availableLayers) = 1
  /\ inst.calls = <<>>

\* the create info has been filled in from the capabilities in swp.caps
CreateInfoBuilt == swp.step \in {"created", "failed"}

Clamped(e, v, lo, hi) ==
  /\ e \in lo..hi
  /\ v \in lo..hi => e = v
  /\ v < lo => e = lo
  /\ v > hi => e = hi

\* C25: the swapchain extent is the surface's current extent unless that is
\* the (0xFFFFFFFF, 0xFFFFFFFF) sentinel; with the sentinel it is the
\* framebuffer size, width and height each clamped into the range from
\* minImageExtent to maxImageExtent, so it always lies inside that range.
C25_SwapchainExtent ==
  CreateInfoBuilt =>
    LET c == swp.caps
    IN IF c.currentExtent # Extent(UINT32_MAX, UINT32_MAX)
       THEN swp.imageExtent = c.currentExtent /\ swp.fb = NoSize
       ELSE /\ swp.fb \in FramebufferSizes
            /\ Clamped(swp.imageExtent.width, swp.fb.width,
                        c.minImageExtent.width, c.maxImageExtent.width)
            /\ Clamped(swp.imageExtent.height, swp.fb.height,
                        c.minImageExtent.height, c.maxImageExtent.height)

\* the sentinel was reported, the framebuffer is wider than the maximum and
\* lower than the minimum
C25_Witness ==
  /\ CreateInfoBuilt
  /\ swp.caps.currentExtent = Extent(UINT32_MAX, UINT32_MAX)
  /\ swp.fb.width > swp.caps.maxImageExtent.width
  /\ swp.fb.height < swp.caps.minImageExtent.height
  /\ swp.imageExtent = Extent(swp.caps.maxImageExtent.width, swp.caps.minImageExtent.height)

\* C26: from a list of supported formats that contains the B8G8R8A8_SRGB /
\* SRGB_NONLINEAR entry at any position that entry is chosen; from a list
\* that does not contain it the first entry is chosen.
C26_SurfaceFormatPreference ==
  (swp.step = "caps" /\ swp.formats # <<>>) =>
    IF \E i \in DOMAIN swp.formats :
         /\ swp.formats[i].format = "VK_FORMAT_B8G8R8A8_SRGB"
         /\ swp.formats[i].colorSpace = "VK_COLORSPACE_SRGB_NONLINEAR_KHR"
    THEN /\ swp.surfaceFormat.format = "VK_FORMAT_B8G8R8A8_SRGB"
         /\ swp.surfaceFormat.colorSpace = "VK_COLORSPACE_SRGB_NONLINEAR_KHR"
    ELSE swp.surfaceFormat = swp.formats[1]

\* the preferred entry is the last of three and was chosen
C26_Witness ==
  /\ swp.step = "caps"
  /\ Len(swp.formats) = 3
  /\ swp.formats[1] \notin Preferred
  /\ swp.formats[2] \notin Preferred
  /\ swp.formats[3] \in Preferred
  /\ swp.surfaceFormat = swp.formats[3]

C28_IndicesInRange ==
  /\ pc = "select" => frameIdx < perFrame
  /\ pc = "record" => renderFramebuffer(frameIdx) < imageViews

\* C29: the image-available semaphore of the slot handed to
\* vkAcquireNextImageKHR carries no pending signal: whatever signal an
\* earlier acquire left on it has been waited on by a submission, also when
\* that earlier acquire was in an invalidated iteration.
C29_AcquireSemaphoreUnsignaled ==
  pc = "acquire" => ~imageAvailable[frameIdx]

\* an automatic object of main() whose destruction destroys objects created
\* from the device (or the device itself)
GpuObjects ==
  {Obj("device"), Obj("shaderLayout"), Obj("vertexShader"), Obj("fragmentShader"),
   Obj("commandPool"), Obj("renderInfo"), Obj("perFrame")}

\* C30: whenever an object holding GPU resources is destroyed (at the end
\* of main()'s block, while the stack is unwound after a fatal error, or
\* when the bundle is replaced), no submission is in flight.
C30_NothingInFlightAtDestruction ==
  [][/\ (Len(scope') < Len(scope) /\ scope[Len(scope)] \in GpuObjects) => gpuQueue = <<>>
     /\ (bundle # <<>> /\ bundle' # bundle) => gpuQueue = <<>>]_vars
====
